---- MODULE Spec2Model ----
(***************************************************************************)
(* A state-machine model of ShardedModelV2                                 *)
(* (src/colossalai/zero/sharded_model/sharded_model_v2.py): the sharded-   *)
(* parameter gradient synchronisation protocol of one data-parallel worker *)
(* (rank cfg.rank of cfg.world_size), its reduce-scatter bucketer, its     *)
(* memory statistics collector and the constructor's checks.               *)
(*                                                                         *)
(* Tensors are flat sequences of exact rationals <<num, den>> in lowest    *)
(* terms, so that the predivide / postdivide arithmetic of the gradient    *)
(* hook and of the reduce-scatter callback is computed, not assumed.       *)
(* Floating point rounding and dtype casts (fp16 / fp32) are outside the   *)
(* model: a cast keeps the value and is not represented.                   *)
(***************************************************************************)
EXTENDS Integers, Sequences, FiniteSets, TLC

(***************************************************************************)
(* Bounds of the model.                                                    *)
(***************************************************************************)
NumParams == 2          \* parameters of the wrapped module
MaxPass == 2            \* backward calls made in one behaviour
MaxPassAccum == 3       \* the same, where gradients accumulate over calls
SinglePass == 1         \* the same, where one call is looked at
MaxForward == 2         \* forward calls before a backward call
MaxWorldCtor == 9       \* largest worker count the constructor is tried with

Params == 1..NumParams
UsageVals == {1, 2}     \* values of one memory sample
BucketCaps == {1, 2}    \* bucket capacities, in queued gradients

None == "None"          \* no exception

(***************************************************************************)
(* Exact rational arithmetic.                                              *)
(***************************************************************************)
Abs(i) == IF i < 0 THEN -i ELSE i

RECURSIVE GCD(_, _)
GCD(a, b) == IF b = 0 THEN a ELSE GCD(b, a % b)

Rat(n, d) ==
    LET s == IF d < 0 THEN -1 ELSE 1
        g == GCD(Abs(n), Abs(d))
    IN  <<(s * n) \div g, (s * d) \div g>>

RInt(i) == <<i, 1>>
RAdd(a, b) == Rat(a[1] * b[2] + b[1] * a[2], a[2] * b[2])
RMul(a, b) == Rat(a[1] * b[1], a[2] * b[2])
RDiv(a, b) == Rat(a[1] * b[2], a[2] * b[1])
RGt(a, b) == a[1] * b[2] > b[1] * a[2]
RIsInt(a) == a[2] = 1

VInt(v) == [i \in 1..Len(v) |-> RInt(v[i])]
VAdd(u, v) == [i \in 1..Len(u) |-> RAdd(u[i], v[i])]
VDiv(v, r) == [i \in 1..Len(v) |-> RDiv(v[i], r)]
VZero(len) == [i \in 1..len |-> RInt(0)]

\* the sum of the vectors f[w], w in W, each of length len
RECURSIVE VSum(_, _, _)
VSum(f, W, len) ==
    IF W = {} THEN VZero(len)
    ELSE LET w == CHOOSE x \in W : TRUE IN VAdd(f[w], VSum(f, W \ {w}, len))

Max(S) == CHOOSE x \in S : \A y \in S : y <= x

(***************************************************************************)
(* Tensors: a kind (what the storage holds), the data and the device.      *)
(***************************************************************************)
Tensor(kind, data, dev) == [kind |-> kind, data |-> data, dev |-> dev]

\* Python's None where a tensor is expected
NoTensor == Tensor("None", <<>>, "-")

\* the parameter's own values are not modelled: only which payload it is
ParamShard == Tensor("param_shard", <<>>, "cuda")
ParamFull == Tensor("param_full", <<>>, "cuda")

\* free_storage(torch.empty_like(grad)): a tensor whose storage has length 0
free_storage == Tensor("empty", <<>>, "cuda")

\* parameter p holds p elements: the parameters differ in size, and with two
\* workers an odd-sized one needs padding
numel(p) == p

\* The workload: the local gradient worker w computes for parameter p in
\* backward call k. The values differ by worker, parameter, call and element,
\* so that a sum over the wrong workers, chunk or call shows.
\* Under DocstringSeed it is the example of the hook's docstring (lines
\* 227-229): four elements, [1, 2, 3, 4] on worker 0 and [5, 6, 7, 8] on worker 1.
DocstringSeed == 1

GradLen(seed, p) == IF seed = DocstringSeed THEN 4 ELSE numel(p)

LocalGrad(seed, w, p, k) ==
    IF seed = DocstringSeed
    THEN [i \in 1..GradLen(seed, p) |-> i + 4 * w]
    ELSE [i \in 1..GradLen(seed, p) |->
              seed + k + 3 * w + 7 * (i - 1) + 11 * (p - 1)]

VARIABLES
    cfg,                \* the constructor's arguments and the process group
    pc,                 \* where the single compute thread is
    error,              \* the exception the last call ended with, or None
    hooks_registered,   \* op hooks and gradient hooks are installed
    shard_param,        \* self.shard_param
    gradient_predivide_factor,
    gradient_postdivide_factor,
    require_backward_grad_sync,
    iter_cnter,         \* self._iter_cnter
    cuda_margin_space,  \* self._cuda_margin_space
    collector,          \* the MemStatsCollector, or None
    col_attr,           \* per parameter: the ShardRecord
    p_grad,             \* per parameter: p.grad
    p_data,             \* per parameter: what p.data references
    reducer,            \* the ReduceScatterBucketer
    comm_queue,         \* work queued on comm_stream, not yet completed
    autograd,           \* the autodiff engine's state in a backward call
    calls,              \* calls made so far (bounds the behaviour)
    hist                \* history: what the passes since the last reset were

vars == <<cfg, pc, error, hooks_registered, shard_param,
          gradient_predivide_factor, gradient_postdivide_factor,
          require_backward_grad_sync, iter_cnter, cuda_margin_space,
          collector, col_attr, p_grad, p_data, reducer, comm_queue,
          autograd, calls, hist>>

(***************************************************************************)
(* Collaborators that live outside sharded_model_v2.py.                    *)
(***************************************************************************)

\* _utils.get_gradient_predivide_factor: the largest factor <= sqrt(n) that
\* evenly divides n (1 always qualifies)
get_gradient_predivide_factor(world_size) ==
    RInt(Max({f \in 1..world_size : f * f <= world_size /\ world_size % f = 0}))

\* MemStatsCollector(): not collecting, nothing sampled, no call made yet.
\* overall_cuda keeps the values sampled (line 162 reads only their maximum).
MemStatsCollector ==
    [exists |-> TRUE, start_flag |-> FALSE, overall_cuda |-> {},
     start_calls |-> 0, finish_calls |-> 0]

\* self._memstats_collector = None
NoCollector ==
    [exists |-> FALSE, start_flag |-> FALSE, overall_cuda |-> {},
     start_calls |-> 0, finish_calls |-> 0]

\* colo_cuda_memory_capacity(): the device's capacity, above every sample
colo_cuda_memory_capacity == Max(UsageVals) + 3

(***************************************************************************)
(* The constructor's arguments.                                            *)
(***************************************************************************)
DefaultPredivideFactor == RInt(1)

\* gradient_predivide_factor = None (asks for the automatic choice), and a
\* factor not computed yet
NoFactor == <<0, 0>>

FactorArgs == {NoFactor, DefaultPredivideFactor, RInt(0), Rat(1, 2), Rat(3, 2), RInt(2), RInt(4)}

Config(has, sharded, trainable, n, r, f, tracer, reuse, offload, cap, seed, passes) ==
    [has_col_attr |-> has, param_is_sharded |-> sharded, requires_grad |-> trainable,
     world_size |-> n, rank |-> r, gradient_predivide_factor |-> f, seed |-> seed,
     passes |-> passes,
     use_memory_tracer |-> tracer, reuse_fp16_shard |-> reuse,
     cpu_offload |-> offload, bucket_cap |-> cap]

\* ZeroInitContext's record of a parameter
ShardRecord(sharded) ==
    [is_sharded |-> sharded,
     payload |-> IF sharded THEN ParamShard ELSE ParamFull,
     fp16_grad |-> NoTensor, fp32_grad |-> NoTensor, offload_grad |-> FALSE,
     bwd_count |-> 0]

\* a parameter that was not initialised under ZeroInitContext has no col_attr
NoColAttr == [absent |-> TRUE]

NoHist ==
    [modes |-> <<>>, fired |-> [p \in Params |-> {}], rerun |-> "no"]

\* the state before the constructor runs, for one choice of its arguments
InitWith(c) ==
    /\ cfg = c
    /\ pc = "new"
    /\ error = None
    /\ hooks_registered = FALSE
    /\ shard_param = FALSE
    /\ gradient_predivide_factor = NoFactor
    /\ gradient_postdivide_factor = NoFactor
    /\ require_backward_grad_sync = TRUE
    /\ iter_cnter = 0
    /\ cuda_margin_space = 0
    /\ collector = NoCollector
    /\ col_attr = [p \in Params |->
                     IF c.has_col_attr[p] THEN ShardRecord(c.param_is_sharded[p]) ELSE NoColAttr]
    /\ p_grad = [p \in Params |-> NoTensor]
    /\ p_data = [p \in Params |-> "param"]
    /\ reducer = [buckets |-> <<>>, allocated |-> FALSE]
    /\ comm_queue = <<>>
    /\ autograd = [ready |-> {}, cur |-> 0]
    /\ calls = [passes |-> 0, fwd |-> 0]
    /\ hist = NoHist

(***************************************************************************)
(* __init__ (lines 53-120).                                                *)
(***************************************************************************)
AllSharded == \A p \in Params : col_attr[p].is_sharded
AllUnsharded == \A p \in Params : ~col_attr[p].is_sharded

\* (faulty variant) the check of lines 74-75 left out
ShardingCheckRecordsOnly ==
    IF \E p \in Params : col_attr[p] = NoColAttr THEN "AssertionError: no col_attr"
    ELSE None

\* lines 67-75: every parameter carries col_attr, and they agree on sharding
ShardingCheck ==
    IF \E p \in Params : col_attr[p] = NoColAttr THEN "AssertionError: no col_attr"
    ELSE IF ~(AllSharded \/ AllUnsharded) THEN "AssertionError: partially sharded"
    ELSE None

\* lines 110-112
PredivideFactor(arg, world_size) ==
    IF arg # NoFactor THEN arg ELSE get_gradient_predivide_factor(world_size)

\* (faulty variant) the postdivide factor multiplied up instead of divided down
PostdivideFactorMultiplied(world_size, predivide) == RMul(RInt(world_size), predivide)

\* line 113
PostdivideFactor(world_size, predivide) == RDiv(RInt(world_size), predivide)

Fail(e) == /\ pc' = "failed" /\ error' = e

Construct ==
    /\ pc = "new"
    /\ UNCHANGED <<cfg, require_backward_grad_sync, iter_cnter, cuda_margin_space,
                   p_grad, p_data, reducer, comm_queue, autograd, calls, hist>>
    /\ IF ShardingCheck # None
       THEN /\ Fail(ShardingCheck)
            /\ UNCHANGED <<hooks_registered, shard_param, gradient_predivide_factor,
                           gradient_postdivide_factor, collector, col_attr>>
       ELSE LET pre == PredivideFactor(cfg.gradient_predivide_factor, cfg.world_size) IN
            /\ shard_param' = AllSharded
            /\ collector' = IF cfg.use_memory_tracer THEN MemStatsCollector ELSE NoCollector
            /\ hooks_registered' = TRUE
            /\ col_attr' = [p \in Params |->
                              [col_attr[p] EXCEPT !.offload_grad = cfg.cpu_offload]]
            /\ gradient_predivide_factor' = pre
            /\ IF pre = RInt(0)
               THEN /\ Fail("ZeroDivisionError")
                    /\ gradient_postdivide_factor' = NoFactor
               ELSE /\ pc' = "idle"
                    /\ error' = None
                    /\ gradient_postdivide_factor' = PostdivideFactor(cfg.world_size, pre)

(***************************************************************************)
(* The process group and the collaborators of the gradient hook.           *)
(***************************************************************************)
Ranks == 0..(cfg.world_size - 1)
Peers == Ranks \ {cfg.rank}

\* the length of one of the world_size equal chunks of a tensor of len elements
ChunkLen(len, world_size) == (len + world_size - 1) \div world_size

\* _utils.chunk_and_pad: world_size equal contiguous chunks, the tail padded
\* with zeros; chunk r is the one the collective returns to rank r
chunk_and_pad(v, world_size) ==
    LET c == ChunkLen(Len(v), world_size) IN
    [r \in 0..(world_size - 1) |->
        [j \in 1..c |-> IF r * c + j <= Len(v) THEN v[r * c + j] ELSE RInt(0)]]

\* the shard strategy (external): shard / gather of one record
ShardTensor(rec) ==
    IF rec.is_sharded THEN rec
    ELSE [rec EXCEPT !.is_sharded = TRUE,
                     !.payload = IF @.kind = "param_full" THEN ParamShard ELSE @]

GatherTensor(rec) ==
    IF ~rec.is_sharded THEN rec
    ELSE [rec EXCEPT !.is_sharded = FALSE,
                     !.payload = IF @.kind = "param_shard" THEN ParamFull ELSE @]

(***************************************************************************)
(* ReduceScatterBucketer (external): buckets keyed by chunk length, in the *)
(* order they were created; a bucket holds bucket_cap elements per rank.   *)
(* An entry is one queued gradient: the local chunks and the chunk each    *)
(* peer contributes at this rank.                                          *)
(***************************************************************************)
BucketOf(buckets, key) ==
    IF \E i \in 1..Len(buckets) : buckets[i].key = key
    THEN CHOOSE i \in 1..Len(buckets) : buckets[i].key = key
    ELSE 0

\* reduce_scatter_async: what the bucketer is afterwards, and the collectives
\* it issued on the communication stream
reduce_scatter_async(r, entry, cap) ==
    LET key == Len(entry.chunks[0])
        i == BucketOf(r.buckets, key)
    IN  IF i = 0
        THEN [reducer |-> [buckets |-> Append(r.buckets, [key |-> key, entries |-> <<entry>>]),
                           allocated |-> TRUE],
              issued |-> <<>>]
        ELSE IF (Len(r.buckets[i].entries) + 1) * key > cap /\ r.buckets[i].entries # <<>>
        THEN [reducer |-> [buckets |-> [r.buckets EXCEPT ![i].entries = <<entry>>],
                           allocated |-> TRUE],
              issued |-> <<r.buckets[i].entries>>]
        ELSE [reducer |-> [buckets |-> [r.buckets EXCEPT ![i].entries = Append(@, entry)],
                           allocated |-> TRUE],
              issued |-> <<>>]

\* flush: one collective for every non-empty bucket
flush(r) ==
    [reducer |-> [r EXCEPT !.buckets = [i \in 1..Len(r.buckets) |->
                                           [r.buckets[i] EXCEPT !.entries = <<>>]]],
     issued |-> SelectSeq([i \in 1..Len(r.buckets) |-> r.buckets[i].entries],
                          LAMBDA es : es # <<>>)]

\* free: the buckets' buffers are released
free(r) == [r EXCEPT !.allocated = FALSE]

\* the collective primitive: the sum over the workers of chunk `rank`
ReduceScatter(entry, rank) ==
    VAdd(entry.chunks[rank],
         VSum(entry.peers, DOMAIN entry.peers, Len(entry.chunks[rank])))

(***************************************************************************)
(* _grad_post_backward_hook and _reduce_scatter_callback (lines 219-276).  *)
(***************************************************************************)

\* lines 250-252
PreDivide(v, predivide) ==
    IF RGt(predivide, RInt(1)) THEN VDiv(v, predivide) ELSE v

\* (faulty variant) lines 269-271 left out
PostDivideSkipped(v, postdivide) == v

\* lines 269-271
PostDivide(v, postdivide) ==
    IF RGt(postdivide, RInt(1)) THEN VDiv(v, postdivide) ELSE v

\* lines 272-276: where the reduced gradient is stored
StoreReduced(rec, reduced, reuse) ==
    IF reuse
    THEN [rec EXCEPT !.payload = Tensor("grad", reduced, "cuda"), !.is_sharded = TRUE]
    ELSE [rec EXCEPT !.fp16_grad = Tensor("grad", reduced, "cuda")]

\* lines 267-276
reduce_scatter_callback(rec, reduced_grad) ==
    StoreReduced(rec, PostDivide(reduced_grad, gradient_postdivide_factor),
                 cfg.reuse_fp16_shard)

\* what a worker submits for its local gradient g: lines 247-255
GradChunks(g) ==
    chunk_and_pad(PreDivide(VInt(g), gradient_predivide_factor), cfg.world_size)

\* the gradient of parameter p in backward call k, on this worker and on all
Grad(p, k) == LocalGrad(cfg.seed, cfg.rank, p, k)
AllGrads(p, k) == [w \in Ranks |-> LocalGrad(cfg.seed, w, p, k)]

\* every worker runs this hook: what the collective receives for parameter p
Entry(p, g, grads) ==
    [param |-> p,
     chunks |-> GradChunks(g),
     peers |-> [w \in Peers |-> GradChunks(grads[w])[cfg.rank]]]

\* autograd's AccumulateGrad of `new` into p.grad = old: the possible results.
\* Adding into or from a tensor whose storage was freed reads released memory:
\* the result is the old value or arbitrary contents.
Garbage == Tensor("garbage", <<>>, "cuda")

AccumulateGrad(old, new) ==
    IF old = NoTensor THEN {new}
    ELSE IF old.kind \in {"empty", "garbage"} \/ new.kind = "empty" THEN {old, Garbage}
    ELSE IF Len(old.data) # Len(new.data) THEN {Garbage}
    ELSE {Tensor("local_grad", VAdd(old.data, new.data), old.dev)}

\* (history) parameter p's gradient of backward call k was delivered
NoteGrad(h, p, k) == [h EXCEPT !.fired[p] = @ \cup {k}]

\* the hook is called with grad = None (line 240-241)
HookNoGrad(p) ==
    /\ pc = "bwd"
    /\ p \in Params \ autograd.ready
    /\ cfg.requires_grad[p]
    /\ autograd' = [autograd EXCEPT !.ready = @ \cup {p}]
    /\ UNCHANGED <<cfg, pc, error, hooks_registered, shard_param,
                   gradient_predivide_factor, gradient_postdivide_factor,
                   require_backward_grad_sync, iter_cnter, cuda_margin_space,
                   collector, col_attr, p_grad, p_data, reducer, comm_queue,
                   calls, hist>>

\* the assertion of line 242 placed after the early return of lines 243-244
HookPrecisionErrorSyncOnly(p) ==
    /\ pc = "bwd"
    /\ p \in Params \ autograd.ready
    /\ cfg.requires_grad[p]
    /\ require_backward_grad_sync
    /\ pc' = "idle"
    /\ error' = "AssertionError: grad requires grad"
    /\ hist' = [hist EXCEPT !.modes = Append(@, "aborted")]
    /\ UNCHANGED <<cfg, hooks_registered, shard_param,
                   gradient_predivide_factor, gradient_postdivide_factor,
                   require_backward_grad_sync, iter_cnter, cuda_margin_space,
                   collector, col_attr, p_grad, p_data, reducer, comm_queue,
                   autograd, calls>>

\* the hook is called with a gradient that requires grad (line 242): the
\* assertion ends the backward call
HookPrecisionError(p) ==
    /\ pc = "bwd"
    /\ p \in Params \ autograd.ready
    /\ cfg.requires_grad[p]
    /\ pc' = "idle"
    /\ error' = "AssertionError: grad requires grad"
    /\ hist' = [hist EXCEPT !.modes = Append(@, "aborted")]
    /\ UNCHANGED <<cfg, hooks_registered, shard_param,
                   gradient_predivide_factor, gradient_postdivide_factor,
                   require_backward_grad_sync, iter_cnter, cuda_margin_space,
                   collector, col_attr, p_grad, p_data, reducer, comm_queue,
                   autograd, calls>>

\* lines 243-244: no synchronization in this pass; the hook returns None and
\* autograd accumulates the local gradient into p.grad
HookNoSync(p) ==
    /\ pc = "bwd"
    /\ p \in Params \ autograd.ready
    /\ cfg.requires_grad[p]
    /\ ~require_backward_grad_sync
    /\ \E t \in AccumulateGrad(p_grad[p],
                                Tensor("local_grad", VInt(Grad(p, calls.passes)), "cuda")) :
         p_grad' = [p_grad EXCEPT ![p] = t]
    /\ hist' = NoteGrad(hist, p, calls.passes)
    /\ autograd' = [autograd EXCEPT !.ready = @ \cup {p}]
    /\ col_attr' = [col_attr EXCEPT ![p].bwd_count = @ + 1]
    /\ UNCHANGED <<cfg, pc, error, hooks_registered, shard_param,
                   gradient_predivide_factor, gradient_postdivide_factor,
                   require_backward_grad_sync, iter_cnter, cuda_margin_space,
                   collector, p_data, reducer, comm_queue, calls>>

\* (faulty variant) lines 254-260 without the test of the worker count: the
\* gradient always goes to the bucketer
HookSyncAlwaysBuckets(p) ==
    /\ pc = "bwd"
    /\ p \in Params \ autograd.ready
    /\ cfg.requires_grad[p]
    /\ require_backward_grad_sync
    /\ hist' = NoteGrad(hist, p, calls.passes)
    /\ LET e == Entry(p, Grad(p, calls.passes), AllGrads(p, calls.passes))
           out == reduce_scatter_async(reducer, e, cfg.bucket_cap) IN
         /\ reducer' = out.reducer
         /\ comm_queue' = comm_queue \o out.issued
         /\ col_attr' = [col_attr EXCEPT ![p].bwd_count = @ + 1]
    /\ pc' = "hook_wait"
    /\ autograd' = [autograd EXCEPT !.cur = p]
    /\ UNCHANGED <<cfg, error, hooks_registered, shard_param,
                   gradient_predivide_factor, gradient_postdivide_factor,
                   require_backward_grad_sync, iter_cnter, cuda_margin_space,
                   collector, p_grad, p_data, calls>>

\* lines 245-261: the gradient is cloned, predivided and handed to the
\* bucketer, or (one worker) to the callback at once
HookSync(p) ==
    /\ pc = "bwd"
    /\ p \in Params \ autograd.ready
    /\ cfg.requires_grad[p]
    /\ require_backward_grad_sync
    /\ hist' = NoteGrad(hist, p, calls.passes)
    /\ LET e == Entry(p, Grad(p, calls.passes), AllGrads(p, calls.passes)) IN
         /\ IF cfg.world_size > 1
            THEN LET out == reduce_scatter_async(reducer, e, cfg.bucket_cap) IN
                 /\ reducer' = out.reducer
                 /\ comm_queue' = comm_queue \o out.issued
                 /\ col_attr' = [col_attr EXCEPT ![p].bwd_count = @ + 1]
            ELSE /\ col_attr' = [col_attr EXCEPT
                       ![p] = reduce_scatter_callback([@ EXCEPT !.bwd_count = @ + 1],
                                                      e.chunks[0])]
                 /\ UNCHANGED <<reducer, comm_queue>>
    /\ pc' = "hook_wait"
    /\ autograd' = [autograd EXCEPT !.cur = p]
    /\ UNCHANGED <<cfg, error, hooks_registered, shard_param,
                   gradient_predivide_factor, gradient_postdivide_factor,
                   require_backward_grad_sync, iter_cnter, cuda_margin_space,
                   collector, p_grad, p_data, calls>>

\* lines 262-265: the compute stream waits for the communication stream, and
\* the hook returns a placeholder without storage, which autograd accumulates
HookReturn ==
    /\ pc = "hook_wait"
    /\ comm_queue = <<>>
    /\ pc' = "bwd"
    /\ \E t \in AccumulateGrad(p_grad[autograd.cur], free_storage) :
         p_grad' = [p_grad EXCEPT ![autograd.cur] = t]
    /\ autograd' = [ready |-> autograd.ready \cup {autograd.cur}, cur |-> 0]
    /\ UNCHANGED <<cfg, error, hooks_registered, shard_param,
                   gradient_predivide_factor, gradient_postdivide_factor,
                   require_backward_grad_sync, iter_cnter, cuda_margin_space,
                   collector, col_attr, p_data, reducer, comm_queue, calls, hist>>

\* the callbacks of one collective, in the order their gradients were queued
RECURSIVE RunCallbacks(_, _, _)
RunCallbacks(entries, i, recs) ==
    IF i > Len(entries) THEN recs
    ELSE LET e == entries[i] IN
         RunCallbacks(entries, i + 1,
             [recs EXCEPT ![e.param] =
                 reduce_scatter_callback(@, ReduceScatter(e, cfg.rank))])

\* the communication stream completes its oldest collective and runs the
\* reduction-completion callbacks of the gradients in it
CommRun ==
    /\ comm_queue # <<>>
    /\ col_attr' = RunCallbacks(Head(comm_queue), 1, col_attr)
    /\ comm_queue' = Tail(comm_queue)
    /\ UNCHANGED <<cfg, pc, error, hooks_registered, shard_param,
                   gradient_predivide_factor, gradient_postdivide_factor,
                   require_backward_grad_sync, iter_cnter, cuda_margin_space,
                   collector, p_grad, p_data, reducer, autograd, calls, hist>>

(***************************************************************************)
(* forward, backward and the callers between two training steps.           *)
(***************************************************************************)
Touch(h) == [h EXCEPT !.rerun = "no"]

\* start_collection / finish_collection / the op hooks' sample_memstats
start_collection(c) == [c EXCEPT !.start_flag = TRUE, !.start_calls = @ + 1]
finish_collection(c) == [c EXCEPT !.start_flag = FALSE, !.finish_calls = @ + 1]
sample_memstats(c, usage) ==
    IF c.start_flag THEN [c EXCEPT !.overall_cuda = @ \cup {usage}] ELSE c

\* lines 130-136; the wrapped module's op hooks sample the memory in use
forward ==
    /\ pc = "idle"
    /\ calls.fwd < MaxForward
    /\ \E usage \in UsageVals :
         collector' = sample_memstats(
                          IF iter_cnter = 0 /\ collector.exists
                          THEN start_collection(collector) ELSE collector, usage)
    /\ calls' = [calls EXCEPT !.fwd = @ + 1]
    /\ error' = None
    /\ hist' = Touch(hist)
    /\ UNCHANGED <<cfg, pc, hooks_registered, shard_param,
                   gradient_predivide_factor, gradient_postdivide_factor,
                   require_backward_grad_sync, iter_cnter, cuda_margin_space,
                   col_attr, p_grad, p_data, reducer, comm_queue, autograd>>

\* the external caller toggles no-sync mode
SetRequireBackwardGradSync ==
    /\ pc = "idle"
    /\ require_backward_grad_sync' = ~require_backward_grad_sync
    /\ hist' = Touch(hist)
    /\ UNCHANGED <<cfg, pc, error, hooks_registered, shard_param,
                   gradient_predivide_factor, gradient_postdivide_factor,
                   iter_cnter, cuda_margin_space, collector, col_attr, p_grad,
                   p_data, reducer, comm_queue, autograd, calls>>

\* the length of the gradient shard this rank holds of parameter p
ShardLen(p) == ChunkLen(GradLen(cfg.seed, p), cfg.world_size)

\* gradient accumulation: the optimizer side keeps a full-precision
\* accumulator of the shard in col_attr.fp32_grad
SetFp32Grad(p) ==
    /\ pc = "idle"
    /\ cfg.requires_grad[p]
    /\ col_attr[p].fp32_grad = NoTensor
    /\ col_attr' = [col_attr EXCEPT ![p].fp32_grad =
                       Tensor("accum", [i \in 1..ShardLen(p) |-> RInt(1)],
                              IF cfg.cpu_offload THEN "cpu" ELSE "cuda")]
    /\ hist' = Touch(hist)
    /\ UNCHANGED <<cfg, pc, error, hooks_registered, shard_param,
                   gradient_predivide_factor, gradient_postdivide_factor,
                   require_backward_grad_sync, iter_cnter, cuda_margin_space,
                   collector, p_grad, p_data, reducer, comm_queue, autograd, calls>>

\* line 139 / 145: the autodiff engine starts on the loss a forward produced
\* (the graph is consumed: the next backward call needs a new forward)
BackwardStart ==
    /\ pc = "idle"
    /\ calls.fwd > 0
    /\ calls.passes < cfg.passes
    /\ pc' = "bwd"
    /\ error' = None
    /\ autograd' = [ready |-> {}, cur |-> 0]
    /\ calls' = [passes |-> calls.passes + 1, fwd |-> 0]
    /\ hist' = IF hist.modes # <<>> /\ hist.modes[Len(hist.modes)] = "sync"
               THEN [hist EXCEPT !.modes = <<>>, !.fired = NoHist.fired,
                                 !.rerun = "no"]
               ELSE Touch(hist)
    /\ UNCHANGED <<cfg, hooks_registered, shard_param,
                   gradient_predivide_factor, gradient_postdivide_factor,
                   require_backward_grad_sync, iter_cnter, cuda_margin_space,
                   collector, col_attr, p_grad, p_data, reducer, comm_queue>>

\* the differentiation itself fails: backward raises before line 140
BackwardFail ==
    /\ pc = "bwd"
    /\ pc' = "idle"
    /\ error' = "RuntimeError: autograd"
    /\ hist' = [hist EXCEPT !.modes = Append(@, "aborted")]
    /\ UNCHANGED <<cfg, hooks_registered, shard_param,
                   gradient_predivide_factor, gradient_postdivide_factor,
                   require_backward_grad_sync, iter_cnter, cuda_margin_space,
                   collector, col_attr, p_grad, p_data, reducer, comm_queue, autograd,
                   calls>>

\* ZeroHook (external) around a sub-module's backward: the parameters of a
\* sharded module are gathered before it and sharded again after it
OpHookPreBackward(p) ==
    /\ pc = "bwd"
    /\ shard_param
    /\ col_attr[p].is_sharded
    /\ col_attr' = [col_attr EXCEPT ![p] = GatherTensor(@)]
    /\ UNCHANGED <<cfg, pc, error, hooks_registered, shard_param,
                   gradient_predivide_factor, gradient_postdivide_factor,
                   require_backward_grad_sync, iter_cnter, cuda_margin_space,
                   collector, p_grad, p_data, reducer, comm_queue, autograd,
                   calls, hist>>

OpHookPostBackward(p) ==
    /\ pc = "bwd"
    /\ shard_param
    /\ ~col_attr[p].is_sharded
    /\ col_attr' = [col_attr EXCEPT ![p] = ShardTensor(@)]
    /\ UNCHANGED <<cfg, pc, error, hooks_registered, shard_param,
                   gradient_predivide_factor, gradient_postdivide_factor,
                   require_backward_grad_sync, iter_cnter, cuda_margin_space,
                   collector, p_grad, p_data, reducer, comm_queue, autograd,
                   calls, hist>>

\* ZeroHook samples the memory in use while the collector is collecting
OpHookSample ==
    /\ pc = "bwd"
    /\ collector.start_flag
    /\ \E usage \in UsageVals :
         /\ usage \notin collector.overall_cuda
         /\ collector' = sample_memstats(collector, usage)
    /\ UNCHANGED <<cfg, pc, error, hooks_registered, shard_param,
                   gradient_predivide_factor, gradient_postdivide_factor,
                   require_backward_grad_sync, iter_cnter, cuda_margin_space,
                   col_attr, p_grad, p_data, reducer, comm_queue, autograd,
                   calls, hist>>

(***************************************************************************)
(* _update_memstats and _post_backward_operations (lines 150-217).         *)
(***************************************************************************)

\* line 162
MarginSpace(capacity, overall_cuda) == capacity - Max(overall_cuda)

\* (faulty variant) lines 152-154 left out: the sampling window is never closed
update_memstats_window_left_open ==
    IF collector.exists /\ collector.overall_cuda = {}
    THEN [collector |-> collector, margin |-> cuda_margin_space, iter |-> iter_cnter,
          error |-> "ValueError: max() of no sample"]
    ELSE [collector |-> collector,
          margin |-> IF collector.exists
                     THEN MarginSpace(colo_cuda_memory_capacity, collector.overall_cuda)
                     ELSE cuda_margin_space,
          iter |-> iter_cnter + 1,
          error |-> None]

\* lines 150-163: the collector, the margin and the iteration counter after
\* the call, or the error of max() over no sample at all
update_memstats ==
    LET c == IF iter_cnter = 0 /\ collector.exists
             THEN finish_collection(collector) ELSE collector
    IN  IF c.exists /\ c.overall_cuda = {}
        THEN [collector |-> c, margin |-> cuda_margin_space, iter |-> iter_cnter,
              error |-> "ValueError: max() of no sample"]
        ELSE [collector |-> c,
              margin |-> IF c.exists
                         THEN MarginSpace(colo_cuda_memory_capacity, c.overall_cuda)
                         ELSE cuda_margin_space,
              iter |-> iter_cnter + 1,
              error |-> None]

\* lines 172-176: what a synchronized pass puts on the communication stream
FlushIfSync(r, sync) ==
    IF sync THEN flush(r) ELSE [reducer |-> r, issued |-> <<>>]

\* lines 170-176, up to the wait for the communication stream
PostBackwardBegin ==
    LET m == update_memstats
        f == FlushIfSync(reducer, require_backward_grad_sync)
    IN  /\ collector' = m.collector
        /\ cuda_margin_space' = m.margin
        /\ iter_cnter' = m.iter
        /\ IF m.error # None
           THEN /\ pc' = "idle"
                /\ error' = m.error
                /\ hist' = [hist EXCEPT !.rerun = "no"]
                /\ UNCHANGED <<reducer, comm_queue>>
           ELSE /\ pc' = "post_wait"
                /\ error' = None
                /\ reducer' = f.reducer
                /\ comm_queue' = comm_queue \o f.issued
                /\ hist' = IF pc = "idle" THEN [hist EXCEPT !.rerun = "running"] ELSE hist
        /\ UNCHANGED <<cfg, hooks_registered, shard_param,
                       gradient_predivide_factor, gradient_postdivide_factor,
                       require_backward_grad_sync, col_attr, p_grad, p_data, autograd,
                       calls>>

\* line 140 / 146: the differentiation is over and the reconciliation starts
AutodiffDone ==
    /\ pc = "bwd"
    /\ PostBackwardBegin

\* _post_backward_operations called once more, right after a run of it
PostBackwardAgain ==
    /\ pc = "idle"
    /\ hist.rerun = "armed"
    /\ PostBackwardBegin

\* (faulty variant) lines 182-187 left out
ReshardNone(recs, sharded_module) == recs

\* lines 182-187: the records of a sharded module are all sharded again
ReshardAll(recs, sharded_module) ==
    IF sharded_module THEN [p \in Params |-> ShardTensor(recs[p])] ELSE recs

\* lines 205-208: the gradient to publish, or NoTensor where line 208 fails
\* (cast_tensor_to_fp32 of None)
GradPayload(rec, reuse) ==
    IF reuse THEN rec.payload ELSE rec.fp16_grad

\* (faulty variant) lines 216-217 left out: the buffers are not cleared
ReconcileParamKeepsBuffers(p, rec, grad, sync) ==
    LET rec0 == [rec EXCEPT !.bwd_count = 0]
        chosen == GradPayload(rec0, cfg.reuse_fp16_shard)
        moved == IF rec0.offload_grad THEN [chosen EXCEPT !.dev = "cpu"] ELSE chosen
        rec1 == IF cfg.reuse_fp16_shard THEN [rec0 EXCEPT !.payload = moved] ELSE rec0
        summed == Tensor("accum", VAdd(rec0.fp32_grad.data, moved.data), rec0.fp32_grad.dev)
        accum == rec0.fp32_grad # NoTensor
        rec2 == IF accum THEN [rec1 EXCEPT !.fp32_grad = summed] ELSE rec1
    IN  IF ~cfg.requires_grad[p] \/ ~sync
        THEN [rec |-> rec0, grad |-> grad, error |-> None]
        ELSE IF chosen = NoTensor
        THEN [rec |-> rec0, grad |-> grad, error |-> "TypeError: no gradient"]
        ELSE IF accum /\ cfg.reuse_fp16_shard
        THEN [rec |-> rec1, grad |-> grad,
              error |-> "AssertionError: accumulation with reuse_fp16_shard"]
        ELSE IF accum /\ Len(rec0.fp32_grad.data) # Len(moved.data)
        THEN [rec |-> rec1, grad |-> grad, error |-> "RuntimeError: shape"]
        ELSE IF grad = NoTensor
        THEN [rec |-> rec2, grad |-> grad, error |-> "AttributeError: p.grad is None"]
        ELSE [rec |-> rec2,
              grad |-> IF accum THEN summed ELSE moved,
              error |-> None]

\* lines 189-217 for one parameter: its record and p.grad afterwards, and the
\* error that ended the loop there
ReconcileParam(p, rec, grad, sync) ==
    LET rec0 == [rec EXCEPT !.bwd_count = 0]
        chosen == GradPayload(rec0, cfg.reuse_fp16_shard)
        moved == IF rec0.offload_grad THEN [chosen EXCEPT !.dev = "cpu"] ELSE chosen
        rec1 == IF cfg.reuse_fp16_shard THEN [rec0 EXCEPT !.payload = moved] ELSE rec0
        summed == Tensor("accum", VAdd(rec0.fp32_grad.data, moved.data), rec0.fp32_grad.dev)
        accum == rec0.fp32_grad # NoTensor
        rec2 == IF accum THEN [rec1 EXCEPT !.fp32_grad = summed] ELSE rec1
    IN  IF ~cfg.requires_grad[p] \/ ~sync
        THEN [rec |-> rec0, grad |-> grad, error |-> None]
        ELSE IF chosen = NoTensor
        THEN [rec |-> rec0, grad |-> grad, error |-> "TypeError: no gradient"]
        ELSE IF accum /\ cfg.reuse_fp16_shard
        THEN [rec |-> rec1, grad |-> grad,
              error |-> "AssertionError: accumulation with reuse_fp16_shard"]
        ELSE IF accum /\ Len(rec0.fp32_grad.data) # Len(moved.data)
        THEN [rec |-> rec1, grad |-> grad, error |-> "RuntimeError: shape"]
        ELSE IF grad = NoTensor
        THEN [rec |-> rec2, grad |-> grad, error |-> "AttributeError: p.grad is None"]
        ELSE [rec |-> [rec2 EXCEPT !.fp16_grad = NoTensor, !.fp32_grad = NoTensor],
              grad |-> IF accum THEN summed ELSE moved,
              error |-> None]

\* the loop of lines 188-217 from parameter p on; it stops at the first error
RECURSIVE ReconcileFrom(_, _, _, _)
ReconcileFrom(p, recs, grads, sync) ==
    IF p > NumParams THEN [recs |-> recs, grads |-> grads, error |-> None]
    ELSE LET r == ReconcileParam(p, recs[p], grads[p], sync)
             recs1 == [recs EXCEPT ![p] = r.rec]
             grads1 == [grads EXCEPT ![p] = r.grad]
         IN  IF r.error # None
             THEN [recs |-> recs1, grads |-> grads1, error |-> r.error]
             ELSE ReconcileFrom(p + 1, recs1, grads1, sync)

\* (faulty variant) line 176 left out: nothing waits for the communication stream
StreamWaitSkipped(sync, queue) == TRUE

\* line 176: a synchronized pass waits for the communication stream
StreamWaitDone(sync, queue) == sync => queue = <<>>

\* (faulty variant) lines 196-197 left out: the loop publishes in every mode
PostBackwardFinishEveryMode ==
    /\ pc = "post_wait"
    /\ StreamWaitDone(require_backward_grad_sync, comm_queue)
    /\ LET out == ReconcileFrom(1, ReshardAll(col_attr, shard_param), p_grad,
                                TRUE)
       IN  /\ col_attr' = out.recs
           /\ p_grad' = out.grads
           /\ error' = out.error
           /\ hist' = IF hist.rerun = "running" THEN [hist EXCEPT !.rerun = "no"]
                      ELSE IF out.error # None
                      THEN [hist EXCEPT !.modes = Append(@, "aborted")]
                      ELSE [hist EXCEPT
                               !.modes = Append(@, IF require_backward_grad_sync
                                                   THEN "sync" ELSE "nosync"),
                               !.rerun = "armed"]
    /\ reducer' = free(reducer)
    /\ pc' = "idle"
    /\ UNCHANGED <<cfg, hooks_registered, shard_param,
                   gradient_predivide_factor, gradient_postdivide_factor,
                   require_backward_grad_sync, iter_cnter, cuda_margin_space,
                   collector, p_data, comm_queue, autograd, calls>>

\* lines 176-217, and post_iter of lines 141-142
PostBackwardFinish ==
    /\ pc = "post_wait"
    /\ StreamWaitDone(require_backward_grad_sync, comm_queue)
    /\ LET out == ReconcileFrom(1, ReshardAll(col_attr, shard_param), p_grad,
                                require_backward_grad_sync)
       IN  /\ col_attr' = out.recs
           /\ p_grad' = out.grads
           /\ error' = out.error
           /\ hist' = IF hist.rerun = "running" THEN [hist EXCEPT !.rerun = "no"]
                      ELSE IF out.error # None
                      THEN [hist EXCEPT !.modes = Append(@, "aborted")]
                      ELSE [hist EXCEPT
                               !.modes = Append(@, IF require_backward_grad_sync
                                                   THEN "sync" ELSE "nosync"),
                               !.rerun = "armed"]
    /\ reducer' = free(reducer)
    /\ pc' = "idle"
    /\ UNCHANGED <<cfg, hooks_registered, shard_param,
                   gradient_predivide_factor, gradient_postdivide_factor,
                   require_backward_grad_sync, iter_cnter, cuda_margin_space,
                   collector, p_data, comm_queue, autograd, calls>>

(***************************************************************************)
(* state_dict and load_state_dict (lines 278-293).                         *)
(***************************************************************************)

\* lines 279-290; module_ok says whether self.module.state_dict returns
state_dict(module_ok) ==
    /\ pc = "idle"
    /\ LET gathered == [p \in Params |-> GatherTensor(col_attr[p])] IN
       IF module_ok
       THEN /\ col_attr' = [p \in Params |-> ShardTensor(gathered[p])]
            /\ p_data' = p_data
            /\ error' = None
       ELSE /\ col_attr' = gathered
            /\ p_data' = [p \in Params |-> "payload"]
            /\ error' = "RuntimeError: module.state_dict"
    /\ hist' = Touch(hist)
    /\ UNCHANGED <<cfg, pc, hooks_registered, shard_param,
                   gradient_predivide_factor, gradient_postdivide_factor,
                   require_backward_grad_sync, iter_cnter, cuda_margin_space,
                   collector, p_grad, reducer, comm_queue, autograd, calls>>

\* (faulty variant) the parameters are gathered before the call fails
load_state_dict_after_gather ==
    /\ pc = "idle"
    /\ error' = "NotImplementedError"
    /\ col_attr' = [p \in Params |-> GatherTensor(col_attr[p])]
    /\ hist' = Touch(hist)
    /\ UNCHANGED <<cfg, pc, hooks_registered, shard_param,
                   gradient_predivide_factor, gradient_postdivide_factor,
                   require_backward_grad_sync, iter_cnter, cuda_margin_space,
                   collector, p_grad, p_data, reducer, comm_queue,
                   autograd, calls>>

\* lines 292-293
load_state_dict ==
    /\ pc = "idle"
    /\ error' = "NotImplementedError"
    /\ hist' = Touch(hist)
    /\ UNCHANGED <<cfg, pc, hooks_registered, shard_param,
                   gradient_predivide_factor, gradient_postdivide_factor,
                   require_backward_grad_sync, iter_cnter, cuda_margin_space,
                   collector, col_attr, p_grad, p_data, reducer, comm_queue,
                   autograd, calls>>

(***************************************************************************)
(* Specifications. Each starts before the constructor runs, over a family  *)
(* of constructor arguments, and takes the steps of the calls it is about. *)
(***************************************************************************)
BoolMaps == [Params -> BOOLEAN]
AllTrue == [p \in Params |-> TRUE]

\* a sharded module of trainable parameters on rank 0 of two workers, with
\* the default arguments of __init__ (lines 56-63)
BaseConfig ==
    Config(AllTrue, AllTrue, AllTrue, 2, 0, DefaultPredivideFactor,
           FALSE, FALSE, FALSE, 2, 0, MaxPass)

InitOver(configs) == \E c \in configs : InitWith(c)

\* the constructor over every module and every factor argument, then forward
CtorConfigs ==
    {[BaseConfig EXCEPT !.has_col_attr = has, !.param_is_sharded = sharded,
                        !.world_size = n, !.gradient_predivide_factor = f,
                        !.use_memory_tracer = tracer] :
        has \in BoolMaps, sharded \in BoolMaps, n \in 1..MaxWorldCtor,
        f \in FactorArgs, tracer \in BOOLEAN}

NextCtor == Construct \/ forward

SpecCtor == InitOver(CtorConfigs) /\ [][NextCtor]_vars

(***************************************************************************)
(* C5.                                                                     *)
(***************************************************************************)
EvenlyDivides(f, n) == RIsInt(f) /\ f[1] > 0 /\ n % f[1] = 0

Constructed == pc \notin {"new", "failed"}

\* C5 as stated: for every worker count and every accepted predivide factor
\* (default, explicit or automatic), predivide * postdivide = world_size and
\* the predivide factor evenly divides world_size.
C5_FactorsAsStated ==
    Constructed =>
        /\ RMul(gradient_predivide_factor, gradient_postdivide_factor)
               = RInt(cfg.world_size)
        /\ EvenlyDivides(gradient_predivide_factor, cfg.world_size)

\* C5 amended: predivide * postdivide = world_size for every accepted factor;
\* the predivide factor evenly divides world_size when it is the default (1)
\* or the automatic choice. An explicit factor is taken as given.
C5_Factors ==
    Constructed =>
        /\ RMul(gradient_predivide_factor, gradient_postdivide_factor)
               = RInt(cfg.world_size)
        /\ cfg.gradient_predivide_factor \in {NoFactor, DefaultPredivideFactor}
               => EvenlyDivides(gradient_predivide_factor, cfg.world_size)

\* the automatic choice picked a factor above 1 and below the postdivide factor
C5_Witness ==
    /\ Constructed
    /\ cfg.gradient_predivide_factor = NoFactor
    /\ RGt(gradient_predivide_factor, RInt(1))
    /\ RGt(gradient_postdivide_factor, gradient_predivide_factor)

(***************************************************************************)
(* C7.                                                                     *)
(***************************************************************************)
MissingRecord == \E p \in Params : ~cfg.has_col_attr[p]
MixedSharding ==
    \E p, q \in Params : cfg.param_is_sharded[p] /\ ~cfg.param_is_sharded[q]

\* C7: over a module with a parameter without record, or with mixed sharding,
\* construction fails before any hook is registered and no forward call runs;
\* when it succeeds, shard_param holds exactly when every record is sharded.
C7_ConstructionEnforcesSharding ==
    /\ (pc # "new" /\ (MissingRecord \/ MixedSharding)) =>
           /\ pc = "failed"
           /\ ~hooks_registered
           /\ calls.fwd = 0
    /\ Constructed => (shard_param <=> \A p \in Params : col_attr[p].is_sharded)

C7_Witness ==
    /\ pc = "failed"
    /\ ~MissingRecord
    /\ MixedSharding
    /\ error = "AssertionError: partially sharded"

(***************************************************************************)
(* The gradient protocol: forward and backward calls in sync and no-sync   *)
(* mode, with every outcome of a parameter's gradient hook.                *)
(***************************************************************************)
Backward ==
    \/ BackwardStart
    \/ BackwardFail
    \/ \E p \in Params : OpHookPreBackward(p)
    \/ \E p \in Params : OpHookPostBackward(p)
    \/ \E p \in Params : HookNoGrad(p)
    \/ \E p \in Params : HookPrecisionError(p)
    \/ \E p \in Params : HookNoSync(p)
    \/ \E p \in Params : HookSync(p)
    \/ HookReturn
    \/ CommRun
    \/ AutodiffDone
    \/ PostBackwardFinish

Next == Construct \/ forward \/ SetRequireBackwardGradSync \/ Backward

WorkerSlots == {<<1, 0>>, <<2, 0>>, <<2, 1>>}

Configs ==
    {[BaseConfig EXCEPT !.param_is_sharded = [p \in Params |-> sharded],
                        !.requires_grad = trainable,
                        !.world_size = slot[1], !.rank = slot[2],
                        !.reuse_fp16_shard = reuse, !.bucket_cap = cap] :
        sharded \in BOOLEAN, trainable \in BoolMaps, slot \in WorkerSlots,
        reuse \in BOOLEAN, cap \in BucketCaps}

Init == InitOver(Configs)

Spec == Init /\ [][Next]_vars

(***************************************************************************)
(* What the claims speak of.                                               *)
(***************************************************************************)

\* the gradients of parameter p still queued in a bucket or in a collective
\* that has not completed
RECURSIVE CountParam(_, _)
CountParam(entries, p) ==
    IF entries = <<>> THEN 0
    ELSE (IF Head(entries).param = p THEN 1 ELSE 0) + CountParam(Tail(entries), p)

RECURSIVE CountIn(_, _)
CountIn(lists, p) ==
    IF lists = <<>> THEN 0 ELSE CountParam(Head(lists), p) + CountIn(Tail(lists), p)

Pending(p) ==
    CountIn([i \in 1..Len(reducer.buckets) |-> reducer.buckets[i].entries], p)
        + CountIn(comm_queue, p)

\* where the reduction-completion callback stores parameter p's gradient
Stored(p) == GradPayload(col_attr[p], cfg.reuse_fp16_shard)

\* the cross-worker sum of the gradients of backward call k, restricted to
\* this rank's chunk, and its average over the workers
SliceSum(p, k) ==
    VSum([w \in Ranks |-> chunk_and_pad(VInt(LocalGrad(cfg.seed, w, p, k)),
                                        cfg.world_size)[cfg.rank]],
         Ranks, ShardLen(p))

Average(p, k) == VDiv(SliceSum(p, k), RInt(cfg.world_size))

\* parameter p's gradient of the running backward call was handed to the hook
FiredNow(p) == calls.passes \in hist.fired[p]

(***************************************************************************)
(* C3: one backward call, in either mode, over every order of the hooks    *)
(* and the collectives and both bucket capacities.                         *)
(***************************************************************************)
\* rank 0 of one worker (where no bucketer is in play: one capacity) and of
\* two workers
OrderConfigs ==
    {c \in {[BaseConfig EXCEPT !.world_size = n,
                               !.reuse_fp16_shard = reuse,
                               !.bucket_cap = cap,
                               !.passes = SinglePass] :
                n \in {1, 2}, reuse \in BOOLEAN, cap \in BucketCaps} :
        c.world_size > 1 \/ c.bucket_cap = Max(BucketCaps)}

SpecOrder == InitOver(OrderConfigs) /\ [][Next]_vars

CallbackRuns(p) ==
    /\ comm_queue # <<>>
    /\ comm_queue' = Tail(comm_queue)
    /\ CountParam(Head(comm_queue), p) > 0

ReconciliationReads ==
    /\ pc = "post_wait"
    /\ pc' = "idle"
    /\ require_backward_grad_sync

\* C3: in a synchronized pass, a parameter's reduction-completion callback
\* runs only after its gradient hook fired, and when the reconciliation reads
\* the gradient buffers, no gradient of a parameter whose hook fired is still
\* queued or in flight: its callback has stored the reduced gradient.
C3_CallbackBeforeRead ==
    [][/\ \A p \in Params : CallbackRuns(p) => hist.fired[p] # {}
       /\ ReconciliationReads =>
              \A p \in Params : FiredNow(p) =>
                  /\ Pending(p) = 0
                  /\ Stored(p).kind = "grad"]_vars

\* the reconciliation is about to read, on two workers with a bucket that
\* overflowed during the pass, after the hooks of all parameters fired
C3_Witness ==
    /\ pc = "post_wait"
    /\ require_backward_grad_sync
    /\ cfg.world_size > 1
    /\ cfg.bucket_cap = 1
    /\ comm_queue = <<>>
    /\ \A p \in Params : FiredNow(p) /\ Stored(p).kind = "grad"

(***************************************************************************)
(* C2: one synchronized pass under every predivide factor.                 *)
(***************************************************************************)
DivideConfigs ==
    {[BaseConfig EXCEPT !.requires_grad = trainable,
                        !.world_size = slot[1], !.rank = slot[2],
                        !.gradient_predivide_factor = f,
                        !.reuse_fp16_shard = reuse,
                        !.passes = SinglePass] :
        trainable \in BoolMaps, slot \in WorkerSlots, f \in FactorArgs,
        reuse \in BOOLEAN}

SpecDivide == InitOver(DivideConfigs) /\ [][Next]_vars

\* C2: for every worker count and every configured predivide factor, the
\* gradient the reduction-completion callback stores for a parameter is the
\* cross-worker sum of this worker's chunk divided by exactly the worker count.
C2_ExactAverage ==
    \A p \in Params :
        Stored(p).kind = "grad" =>
            \E k \in 1..calls.passes : Stored(p).data = Average(p, k)

(***************************************************************************)
(* C1: gradient accumulation over passes without synchronization.          *)
(***************************************************************************)
AccumConfigs ==
    {[BaseConfig EXCEPT !.requires_grad = trainable,
                        !.world_size = slot[1], !.rank = slot[2],
                        !.passes = MaxPassAccum] :
        trainable \in BoolMaps, slot \in WorkerSlots}

SpecAccum == InitOver(AccumConfigs) /\ [][Next]_vars

\* the last three completed passes were two without synchronization and then
\* one with it, and parameter p received a gradient in each
TwoNoSyncThenSync(p) ==
    /\ pc = "idle"
    /\ error = None
    /\ hist.modes = <<"nosync", "nosync", "sync">>
    /\ calls.passes >= 3
    /\ {calls.passes - 2, calls.passes - 1, calls.passes} \subseteq hist.fired[p]

\* C1: after two passes without synchronization and a third with it, the
\* published gradient of every parameter is the sum of the three passes'
\* gradients (summed over the workers, this worker's slice) divided once by
\* the worker count.
C1_NoSyncAccumulation ==
    \A p \in Params :
        TwoNoSyncThenSync(p) =>
            p_grad[p].data =
                VDiv(VAdd(VAdd(SliceSum(p, calls.passes - 2),
                               SliceSum(p, calls.passes - 1)),
                          SliceSum(p, calls.passes)),
                     RInt(cfg.world_size))

(***************************************************************************)
(* C4: state_dict between training steps.                                  *)
(***************************************************************************)
StateDictConfigs ==
    {[BaseConfig EXCEPT !.param_is_sharded = [p \in Params |-> sharded],
                        !.requires_grad = trainable,
                        !.world_size = slot[1], !.rank = slot[2],
                        !.passes = SinglePass] :
        sharded \in BOOLEAN, trainable \in BoolMaps, slot \in WorkerSlots}

StateDictCall == \E module_ok \in BOOLEAN : state_dict(module_ok)

NextStateDict == Next \/ StateDictCall \/ load_state_dict

SpecStateDict == InitOver(StateDictConfigs) /\ [][NextStateDict]_vars

\* C4: on every exit path of state_dict, also when the wrapped module's own
\* state_dict fails after the gather, no parameter of a sharded module is left
\* gathered.
C4_ReshardedOnEveryExit ==
    [][(StateDictCall /\ shard_param) =>
           \A p \in Params : col_attr'[p].is_sharded]_vars

(***************************************************************************)
(* C6: the reconciliation run twice in a row.                              *)
(***************************************************************************)
RerunConfigs ==
    {[BaseConfig EXCEPT !.requires_grad = trainable,
                        !.world_size = slot[1], !.rank = slot[2],
                        !.reuse_fp16_shard = reuse,
                        !.cpu_offload = offload,
                        !.passes = SinglePass] :
        trainable \in BoolMaps, slot \in WorkerSlots, reuse \in BOOLEAN,
        offload \in BOOLEAN}

NextRerun == Next \/ PostBackwardAgain

SpecRerun == InitOver(RerunConfigs) /\ [][NextRerun]_vars

\* the second run of the reconciliation reaches its end
SecondRunEnds ==
    /\ hist.rerun = "running"
    /\ pc = "post_wait"
    /\ pc' = "idle"

\* C6: a second run of the reconciliation right after the first, with no
\* backward pass and no hook in between, completes and leaves every published
\* gradient as the first run left it, whatever the mode.
C6_RerunIdempotent ==
    [][SecondRunEnds => (error' = None /\ p_grad' = p_grad)]_vars

\* the part of it that the second run does satisfy: no published gradient
\* changes
RerunKeepsGradients ==
    [][(hist.rerun = "running" \/ hist'.rerun = "running") => p_grad' = p_grad]_vars

(***************************************************************************)
(* C8: gradient accumulation together with shard reuse.                    *)
(***************************************************************************)
AccumReuseConfigs ==
    {[BaseConfig EXCEPT !.requires_grad = trainable,
                        !.world_size = slot[1], !.rank = slot[2],
                        !.reuse_fp16_shard = reuse,
                        !.passes = SinglePass] :
        trainable \in BoolMaps, slot \in WorkerSlots, reuse \in BOOLEAN}

NextAccumReuse == Next \/ \E p \in Params : SetFp32Grad(p)

SpecAccumReuse == InitOver(AccumReuseConfigs) /\ [][NextAccumReuse]_vars

AccumulationWithReuse ==
    error = "AssertionError: accumulation with reuse_fp16_shard"

\* C8: gradient accumulation combined with shard reuse is rejected when the
\* model is constructed, so no backward call fails with it after the
\* reconciliation has already published the gradient of some parameter.
C8_NoLateConfigurationError ==
    AccumulationWithReuse =>
        /\ pc = "failed"
        /\ \A p \in Params : p_grad[p].kind # "grad"

(***************************************************************************)
(* C9, C10: the memory tracer's sampling window and the margin space.      *)
(***************************************************************************)
MemConfigs ==
    {[BaseConfig EXCEPT !.use_memory_tracer = tracer,
                        !.world_size = 1] :
        tracer \in BOOLEAN}

\* synchronized training steps on one worker, the differentiation possibly
\* failing, with the op hooks sampling
NextMem ==
    \/ Construct
    \/ forward
    \/ BackwardStart
    \/ BackwardFail
    \/ OpHookSample
    \/ \E p \in Params : HookSync(p)
    \/ HookReturn
    \/ AutodiffDone
    \/ PostBackwardFinish

SpecMem == InitOver(MemConfigs) /\ [][NextMem]_vars

\* C10: every start_collection is matched by one finish_collection before the
\* next start_collection, and no finish_collection comes without a start.
C10_WindowPaired ==
    collector.start_calls - collector.finish_calls \in {0, 1}

\* the margin space as the claim gives it, in one state
MarginAsStated ==
    /\ ~cfg.use_memory_tracer => cuda_margin_space = 0
    /\ iter_cnter = 0 => cuda_margin_space = 0
    /\ (cfg.use_memory_tracer /\ iter_cnter >= 1) =>
           cuda_margin_space = colo_cuda_memory_capacity - Max(collector.overall_cuda)

\* C9: with tracing on, once the sampling window of iteration 0 is finished
\* the margin space is the capacity minus the recorded peak, and no later
\* sample or pass changes it; before that, and with tracing off, it is 0.
C9_MarginSpace ==
    [][/\ MarginAsStated
       /\ MarginAsStated'
       /\ iter_cnter >= 1 =>
              /\ cuda_margin_space' = cuda_margin_space
              /\ collector'.overall_cuda = collector.overall_cuda]_vars

\* a second backward pass has ended after a window that recorded two different
\* usages, and a forward of a later iteration has run since
C9_Witness ==
    /\ cfg.use_memory_tracer
    /\ pc = "idle"
    /\ error = None
    /\ iter_cnter >= 2
    /\ calls.fwd > 0
    /\ Cardinality(collector.overall_cuda) > 1
    /\ cuda_margin_space = colo_cuda_memory_capacity - Max(collector.overall_cuda)

(***************************************************************************)
(* C11: what the reduce-scatter delivers and what the worker then holds.   *)
(***************************************************************************)
\* synchronized passes only
NextSync ==
    \/ Construct
    \/ forward
    \/ BackwardStart
    \/ BackwardFail
    \/ \E p \in Params : OpHookPreBackward(p)
    \/ \E p \in Params : OpHookPostBackward(p)
    \/ \E p \in Params : HookNoGrad(p)
    \/ \E p \in Params : HookPrecisionError(p)
    \/ \E p \in Params : HookSync(p)
    \/ HookReturn
    \/ CommRun
    \/ AutodiffDone
    \/ PostBackwardFinish

\* both ranks of two workers, the docstring's gradients and the generic ones,
\* the default predivide factor and an explicit one
ScatterConfigs ==
    {[BaseConfig EXCEPT !.world_size = slot[1], !.rank = slot[2],
                        !.seed = seed,
                        !.gradient_predivide_factor = f,
                        !.passes = SinglePass] :
        slot \in {s \in WorkerSlots : s[1] = 2}, seed \in {0, DocstringSeed},
        f \in {DefaultPredivideFactor, RInt(2)}}

SpecScatter == InitOver(ScatterConfigs) /\ [][NextSync]_vars

\* the sum over the workers of the chunk at this rank of what each worker
\* submits for parameter p in backward call k
SubmittedSum(p, k) ==
    VSum([w \in Ranks |->
             chunk_and_pad(PreDivide(VInt(LocalGrad(cfg.seed, w, p, k)),
                                     gradient_predivide_factor),
                           cfg.world_size)[cfg.rank]],
         Ranks, ShardLen(p))

DocstringScenario ==
    /\ cfg.seed = DocstringSeed
    /\ cfg.world_size = 2
    /\ gradient_predivide_factor = RInt(1)

DocstringSums == IF cfg.rank = 0 THEN VInt(<<6, 8>>) ELSE VInt(<<10, 12>>)
DocstringHeld == IF cfg.rank = 0 THEN VInt(<<3, 4>>) ELSE VInt(<<5, 6>>)

DictConfigs ==
    {[BaseConfig EXCEPT !.param_is_sharded = [p \in Params |-> sharded],
                        !.world_size = n,
                        !.passes = SinglePass] :
        sharded \in BOOLEAN, n \in {1, 2}}

NextDict == NextSync \/ StateDictCall \/ load_state_dict

SpecDict == InitOver(DictConfigs) /\ [][NextDict]_vars

\* a call between two operations ends with the error of load_state_dict
LoadStateDictFails ==
    /\ pc = "idle"
    /\ pc' = "idle"
    /\ error' = "NotImplementedError"

\* C12: load_state_dict fails and leaves everything as it was: no record is
\* gathered or sharded, and the sharding flags, payloads, gradient buffers,
\* published gradients and the bucketer are as before the call.
C12_LoadStateDictChangesNothing ==
    [][LoadStateDictFails =>
          /\ col_attr' = col_attr
          /\ p_grad' = p_grad
          /\ p_data' = p_data
          /\ shard_param' = shard_param
          /\ reducer' = reducer
          /\ comm_queue' = comm_queue
          /\ iter_cnter' = iter_cnter]_vars

\* load_state_dict has failed after a training step published a gradient
C12_Witness ==
    /\ pc = "idle"
    /\ error = "NotImplementedError"
    /\ \E p \in Params : p_grad[p].kind = "grad"

(***************************************************************************)
(* C13: a backward call without synchronization.                           *)
(***************************************************************************)
NoSyncPass == ~require_backward_grad_sync /\ pc \in {"bwd", "post_wait"}

\* a step of the gradient hook, and the last step of the reconciliation
HookStep == autograd' # autograd /\ pc = "bwd"
ReconciliationEnds == pc = "post_wait" /\ pc' = "idle"

GradBuffers(recs) == [p \in Params |-> <<recs[p].fp16_grad, recs[p].fp32_grad>>]
ShardFlags(recs) == [p \in Params |-> recs[p].is_sharded]

\* C13 as stated: without synchronization neither the hook nor the
\* reconciliation submits, flushes or issues anything, touches the bucket
\* buffers or calls the shard strategy, and fp16_grad, fp32_grad and the
\* published gradients stay as autodiff left them.
C13_NoSyncTouchesNothing ==
    [][(NoSyncPass /\ (HookStep \/ pc' # pc)) =>
          /\ reducer' = reducer
          /\ Len(comm_queue') <= Len(comm_queue)
          /\ GradBuffers(col_attr') = GradBuffers(col_attr)
          /\ ShardFlags(col_attr') = ShardFlags(col_attr)
          /\ ReconciliationEnds => p_grad' = p_grad]_vars

\* C13, amended: without synchronization nothing is submitted to or flushed
\* from the bucketer, no collective is issued, and neither the hook nor the
\* reconciliation changes fp16_grad, fp32_grad or a published gradient; the
\* reconciliation may still release the bucket buffers and shard the records
\* left gathered.
C13_NoSyncLocalOnly ==
    [][(NoSyncPass /\ (HookStep \/ pc' # pc)) =>
          /\ reducer'.buckets = reducer.buckets
          /\ Len(comm_queue') <= Len(comm_queue)
          /\ GradBuffers(col_attr') = GradBuffers(col_attr)
          /\ ReconciliationEnds => p_grad' = p_grad]_vars

\* a reconciliation without synchronization has ended after the hooks of all
\* parameters accumulated their local gradients
C13_Witness ==
    /\ ~require_backward_grad_sync
    /\ pc = "idle"
    /\ hist.modes # <<>>
    /\ hist.modes[Len(hist.modes)] = "nosync"
    /\ \A p \in Params : FiredNow(p) /\ p_grad[p].kind = "local_grad"

(***************************************************************************)
(* C14: the bucketer's free() at the end of every backward call.           *)
(***************************************************************************)
\* line 180 runs in the step that ends the reconciliation
FreeCalled == ReconciliationEnds /\ reducer' = free(reducer)

\* C14: whenever the reconciliation calls free(), no gradient submitted to the
\* bucketer is still waiting for its collective or for its callback, over
\* every sequence of backward calls.
C14_FreeWhenIdle ==
    [][FreeCalled => \A p \in Params : Pending(p) = 0]_vars

(***************************************************************************)
(* C15: the re-shard safety net of the reconciliation.                     *)
(***************************************************************************)
ReshardConfigs ==
    {[BaseConfig EXCEPT !.param_is_sharded = [p \in Params |-> sharded],
                        !.reuse_fp16_shard = reuse,
                        !.passes = SinglePass] :
        sharded \in BOOLEAN, reuse \in BOOLEAN}

SpecReshard == InitOver(ReshardConfigs) /\ [][Next]_vars

\* the reconciliation shards parameter p's record
Resharded(p) == ~col_attr[p].is_sharded /\ col_attr'[p].is_sharded

\* C15 as stated: in an all-sharded module the reconciliation re-shards a
\* record exactly when the parameter's gradient hook did not fire in this
\* iteration, and every record is sharded afterwards; in an all-unsharded
\* module the reconciliation never shards.
C15_ReshardIffHookSilent ==
    [][ReconciliationEnds =>
          IF shard_param
          THEN \A p \in Params :
                   /\ Resharded(p) => ~FiredNow(p)
                   /\ col_attr'[p].is_sharded
          ELSE ShardFlags(col_attr') = ShardFlags(col_attr)]_vars

\* C15, amended: in an all-sharded module the reconciliation shards exactly
\* the records that are not sharded when it runs, whether or not the gradient
\* hook fired, and every record is sharded afterwards in either mode; in an
\* all-unsharded module the reconciliation never shards.
C15_ReshardSafetyNet ==
    [][ReconciliationEnds =>
          IF shard_param
          THEN \A p \in Params :
                   /\ Resharded(p) <=> ~col_attr[p].is_sharded
                   /\ col_attr'[p].is_sharded
          ELSE ShardFlags(col_attr') = ShardFlags(col_attr)]_vars

\* the reconciliation is about to shard the record of a parameter whose
\* gradient hook did fire
C15_Witness ==
    /\ pc = "post_wait"
    /\ shard_param
    /\ \E p \in Params : FiredNow(p) /\ ~col_attr[p].is_sharded

(***************************************************************************)
(* C16: fp16_grad and fp32_grad of a record.                               *)
(***************************************************************************)
\* synchronized training steps while the optimizer side keeps accumulators,
\* with and without shard reuse, on one worker and on two; the last parameter
\* is frozen
BufferConfigs ==
    {[BaseConfig EXCEPT !.requires_grad = [p \in Params |-> p < NumParams],
                        !.world_size = n,
                        !.reuse_fp16_shard = reuse,
                        !.passes = SinglePass] :
        n \in {1, 2}, reuse \in BOOLEAN}

NextBuffers == NextSync \/ \E p \in Params : SetFp32Grad(p)

SpecBuffers == InitOver(BufferConfigs) /\ [][NextBuffers]_vars

Trainable == {p \in Params : cfg.requires_grad[p]}

PrecisionError == "AssertionError: grad requires grad"

\* the step in which the assertion of line 242 fails
PrecisionErrorRaised == pc = "bwd" /\ error' = PrecisionError

\* the step in which the hook of a parameter returns at lines 240-241
NoneGradHook ==
    /\ pc = "bwd" /\ pc' = "bwd"
    /\ autograd'.ready # autograd.ready
    /\ hist'.fired = hist.fired

\* C17: in sync and in no-sync mode alike the hook can fail on a gradient
\* that requires grad; the failure submits nothing to the bucketer, leaves
\* every record and every p.grad as they were, and ends the backward call
\* without reconciliation and without the memory update; a hook called with
\* no gradient changes nothing and does not fail.
C17_PrecisionError ==
    [][/\ (pc = "bwd" /\ Trainable \ autograd.ready # {}) =>
              ENABLED (\E p \in Params : HookPrecisionError(p))
       /\ PrecisionErrorRaised =>
              /\ pc' = "idle"
              /\ reducer' = reducer /\ comm_queue' = comm_queue
              /\ col_attr' = col_attr /\ p_grad' = p_grad /\ p_data' = p_data
              /\ iter_cnter' = iter_cnter /\ collector' = collector
              /\ cuda_margin_space' = cuda_margin_space
       /\ NoneGradHook =>
              /\ error' = error
              /\ reducer' = reducer /\ comm_queue' = comm_queue
              /\ col_attr' = col_attr /\ p_grad' = p_grad]_vars

\* a no-sync backward call was ended by the assertion after the hook of
\* another parameter had accumulated its local gradient
C17_Witness ==
    /\ pc = "idle"
    /\ error = PrecisionError
    /\ ~require_backward_grad_sync
    /\ hist.modes # <<>>
    /\ hist.modes[Len(hist.modes)] = "aborted"
    /\ \E p \in Trainable : p_grad[p].kind = "local_grad"
    /\ \E p \in Trainable : p_grad[p] = NoTensor

(***************************************************************************)
(* C18: synchronized passes on one worker.                                 *)
(***************************************************************************)
SingleConfigs ==
    {[BaseConfig EXCEPT !.world_size = 1,
                        !.seed = seed,
                        !.gradient_predivide_factor = f,
                        !.reuse_fp16_shard = reuse,
                        !.passes = SinglePass] :
        seed \in {0, DocstringSeed}, f \in {DefaultPredivideFactor, RInt(2)},
        reuse \in BOOLEAN}

\* synchronized passes; there is no collective to complete
NextSingle ==
    \/ Construct
    \/ forward
    \/ BackwardStart
    \/ BackwardFail
    \/ \E p \in Params : OpHookPreBackward(p)
    \/ \E p \in Params : OpHookPostBackward(p)
    \/ \E p \in Params : HookNoGrad(p)
    \/ \E p \in Params : HookPrecisionError(p)
    \/ \E p \in Params : HookSync(p)
    \/ HookReturn
    \/ AutodiffDone
    \/ PostBackwardFinish

SpecSingle == InitOver(SingleConfigs) /\ [][NextSingle]_vars

\* the step in which the hook of a parameter hands over its gradient
HookHandsOver == pc = "bwd" /\ pc' = "hook_wait"

\* the local gradient of the running backward call after lines 250-252
Predivided(p) ==
    IF RGt(gradient_predivide_factor, RInt(1))
    THEN VDiv(VInt(Grad(p, calls.passes)), gradient_predivide_factor)
    ELSE VInt(Grad(p, calls.passes))

\* C18: on one worker with synchronization on, the hook submits nothing to
\* the bucketer and no collective is issued; the step in which it hands over
\* the gradient is the one in which the callback stores the predivided local
\* gradient, so the stored gradient is there while the hook waits for the
\* communication stream and when it returns its placeholder.
C18_SingleWorker ==
    [][(cfg.world_size = 1 /\ require_backward_grad_sync) =>
          /\ reducer'.buckets = <<>> /\ comm_queue' = <<>>
          /\ HookHandsOver =>
                 \E p \in Params :
                     /\ p = autograd'.cur
                     /\ Stored(p)'.kind = "grad"
                     /\ Stored(p)'.data = Predivided(p)
          /\ (pc = "hook_wait" /\ pc' = "bwd") =>
                 /\ Stored(autograd.cur).kind = "grad"
                 /\ Stored(autograd.cur).data = Predivided(autograd.cur)
                 /\ p_grad'[autograd.cur] \in AccumulateGrad(p_grad[autograd.cur], free_storage)
                 /\ col_attr' = col_attr]_vars

\* the hook of a parameter has returned on one worker under a predivide
\* factor of 2: the halved local gradient is stored, p.grad is the placeholder
C18_Witness ==
    /\ cfg.world_size = 1
    /\ cfg.seed = DocstringSeed
    /\ gradient_predivide_factor = RInt(2)
    /\ pc = "bwd"
    /\ \E p \in autograd.ready :
           /\ Stored(p).kind = "grad"
           /\ Stored(p).data = <<Rat(1, 2), RInt(1), Rat(3, 2), RInt(2)>>
           /\ p_grad[p] = free_storage
           /\ reducer.buckets = <<>>

(***************************************************************************)
(* C19: where the published gradient comes from.                           *)
(***************************************************************************)
\* training steps under the default predivide factor, where the callback
\* delivers the average of the workers' gradients
ProvenanceConfigs ==
    {[BaseConfig EXCEPT !.world_size = n,
                        !.reuse_fp16_shard = reuse,
                        !.passes = MaxPass] :
        n \in {1, 2}, reuse \in BOOLEAN}

SpecProvenance == InitOver(ProvenanceConfigs) /\ [][NextSync]_vars

\* C19: when a synchronized reconciliation completes, every trainable
\* parameter's hook has fired in this backward call and p.grad is the reduced
\* gradient its callback delivered in this call: not a gradient of an earlier
\* call and not the parameter's own shard.
C19_PublishedIsDelivered ==
    [][(ReconciliationEnds /\ require_backward_grad_sync /\ error' = None) =>
          \A p \in Trainable :
              /\ FiredNow(p)
              /\ p_grad'[p].kind = "grad"
              /\ p_grad'[p].data = Average(p, calls.passes)]_vars

(***************************************************************************)
(* C20: the sharding state before and after state_dict.                    *)
(***************************************************************************)
\* a state_dict call that returns the gathered dictionary
StateDictReturns == StateDictCall /\ error' = None

\* every record is in the state the constructor's argument announced
RecordsAsConstructed ==
    \A p \in Params : col_attr[p].is_sharded = shard_param

\* C20: a state_dict call that returns normally, made while every record is
\* in the state the module was constructed with (all sharded or all
\* unsharded), leaves every record's is_sharded flag and every parameter's
\* data reference as they were, so the records still agree with shard_param.
C20_StateDictRestores ==
    [][(StateDictReturns /\ RecordsAsConstructed) =>
          /\ ShardFlags(col_attr') = ShardFlags(col_attr)
          /\ p_data' = p_data
          /\ RecordsAsConstructed']_vars
====
